---- MODULE Spec2Model ----
(***************************************************************************)
(* A model of untd (src/src/main.rs): a command line tool that renders a   *)
(* Unix timestamp in a time zone, optionally shifted by an adjustment such *)
(* as "-30s", prints it and copies it to the clipboard.                    *)
(*                                                                         *)
(* Text.  A Rust string is a sequence of characters; a character is a      *)
(* one-character TLA+ string for ASCII and the token "U+XXXX" for the      *)
(* CJK characters the program uses (U+5E74 is the year sign, and so on).   *)
(* Option<T> is a sequence of length 0 (None) or 1 (Some).                 *)
(*                                                                         *)
(* Numbers.  An i64 does not fit the integers of TLC, so a magnitude is     *)
(* a sequence of decimal digits 0..9, most significant first, without      *)
(* leading zeros (zero is the empty sequence), and a signed value is a     *)
(* record [neg, mag].                                                      *)
(***************************************************************************)
EXTENDS Integers, Sequences, FiniteSets, TLC

VARIABLES pc, argv, args, datetime, formatted, output, stdout, stderr, exit_code,
          clipboard, call, ret

vars == <<pc, argv, args, datetime, formatted, output, stdout, stderr, exit_code,
          clipboard, call, ret>>

mainVars == <<pc, argv, args, datetime, formatted, output, stdout, stderr,
              exit_code, clipboard>>

fnVars == <<call, ret>>

-----------------------------------------------------------------------------
(* Characters *)

DigitChars == <<"0", "1", "2", "3", "4", "5", "6", "7", "8", "9">>

\* char::is_digit(10)
is_digit(c) == \E i \in 1..10 : DigitChars[i] = c

\* char::to_digit(10) of a decimal digit
DigitVal(c) == (CHOOSE i \in 1..10 : DigitChars[i] = c) - 1

\* char::from_digit(d, 10)
DigitChar(d) == DigitChars[d + 1]

CJK == {"U+5E74", "U+6708", "U+65E5", "U+6642", "U+5206", "U+79D2",
        "U+706B", "U+6C34", "U+6728", "U+91D1", "U+571F"}

\* char::len_utf8: one byte for ASCII, three for the CJK characters
len_utf8(c) == IF c \in CJK THEN 3 ELSE 1

RECURSIVE str_len(_)
\* str::len, the length in bytes
str_len(s) == IF s = <<>> THEN 0 ELSE len_utf8(Head(s)) + str_len(Tail(s))

\* Option
None == <<>>
Some(x) == <<x>>

-----------------------------------------------------------------------------
(* Decimal magnitudes *)

RECURSIVE Strip(_)
Strip(m) == IF m # <<>> /\ Head(m) = 0 THEN Strip(Tail(m)) ELSE m

RECURSIVE LexCmp(_, _)
LexCmp(a, b) ==
    IF a = <<>> THEN 0
    ELSE IF Head(a) < Head(b) THEN -1
    ELSE IF Head(a) > Head(b) THEN 1
    ELSE LexCmp(Tail(a), Tail(b))

\* -1, 0, 1 as a < b, a = b, a > b, for magnitudes without leading zeros
CmpMag(a, b) ==
    IF Len(a) < Len(b) THEN -1
    ELSE IF Len(a) > Len(b) THEN 1
    ELSE LexCmp(a, b)

RECURSIVE NatDigits(_)
NatDigits(n) == IF n = 0 THEN <<>> ELSE Append(NatDigits(n \div 10), n % 10)

RECURSIVE MagToInt(_)
MagToInt(m) == IF m = <<>> THEN 0 ELSE MagToInt(SubSeq(m, 1, Len(m) - 1)) * 10 + m[Len(m)]

RECURSIVE MulCarry(_, _, _)
MulCarry(m, k, carry) ==
    IF m = <<>> THEN NatDigits(carry)
    ELSE LET d == m[Len(m)] * k + carry
         IN  Append(MulCarry(SubSeq(m, 1, Len(m) - 1), k, d \div 10), d % 10)

\* m * k for a small multiplier k
MulSmall(m, k) == Strip(MulCarry(m, k, 0))

RECURSIVE DivStep(_, _, _, _)
DivStep(m, k, rem, q) ==
    IF m = <<>> THEN [q |-> Strip(q), r |-> rem]
    ELSE LET cur == rem * 10 + Head(m)
         IN  DivStep(Tail(m), k, cur % k, Append(q, cur \div k))

\* quotient and remainder of m by a small divisor k
DivModSmall(m, k) == DivStep(m, k, 0, <<>>)

RECURSIVE AddCarry(_, _, _)
AddCarry(a, b, carry) ==
    IF a = <<>> /\ b = <<>> THEN NatDigits(carry)
    ELSE LET x == IF a = <<>> THEN 0 ELSE a[Len(a)]
             y == IF b = <<>> THEN 0 ELSE b[Len(b)]
             ra == IF a = <<>> THEN <<>> ELSE SubSeq(a, 1, Len(a) - 1)
             rb == IF b = <<>> THEN <<>> ELSE SubSeq(b, 1, Len(b) - 1)
             d == x + y + carry
         IN  Append(AddCarry(ra, rb, d \div 10), d % 10)

AddMag(a, b) == Strip(AddCarry(a, b, 0))

RECURSIVE SubBorrow(_, _, _)
SubBorrow(a, b, borrow) ==
    IF a = <<>> THEN <<>>
    ELSE LET y == IF b = <<>> THEN 0 ELSE b[Len(b)]
             rb == IF b = <<>> THEN <<>> ELSE SubSeq(b, 1, Len(b) - 1)
             d == a[Len(a)] - y - borrow
         IN  Append(SubBorrow(SubSeq(a, 1, Len(a) - 1), rb, IF d < 0 THEN 1 ELSE 0),
                    IF d < 0 THEN d + 10 ELSE d)

\* a - b for a >= b
SubMag(a, b) == Strip(SubBorrow(a, b, 0))

\* signed values
Signed(neg, mag) == [neg |-> neg /\ mag # <<>>, mag |-> mag]

SAdd(x, y) ==
    IF x.neg = y.neg THEN Signed(x.neg, AddMag(x.mag, y.mag))
    ELSE IF CmpMag(x.mag, y.mag) >= 0 THEN Signed(x.neg, SubMag(x.mag, y.mag))
    ELSE Signed(y.neg, SubMag(y.mag, x.mag))

\* x <= y
SLeq(x, y) ==
    IF x.neg /\ ~y.neg THEN TRUE
    ELSE IF ~x.neg /\ y.neg THEN FALSE
    ELSE IF x.neg THEN CmpMag(x.mag, y.mag) >= 0
    ELSE CmpMag(x.mag, y.mag) <= 0

SInt(n) == Signed(n < 0, NatDigits(IF n < 0 THEN -n ELSE n))

\* i64::MAX = 9223372036854775807
I64_MAX == <<9, 2, 2, 3, 3, 7, 2, 0, 3, 6, 8, 5, 4, 7, 7, 5, 8, 0, 7>>

-----------------------------------------------------------------------------
(* get_format_string *)

PAT_DEFAULT == <<"%", "Y", "-", "%", "m", "-", "%", "d">>
PAT_ISO == <<"%", "Y", "-", "%", "m", "-", "%", "d", "T",
             "%", "H", ":", "%", "M", ":", "%", "S", "%", "z">>
PAT_JP == <<"%", "Y", "U+5E74", "%", "m", "U+6708", "%", "d", "U+65E5">>
PAT_JPWD == PAT_JP \o <<"(", "%", "w", ")">>
PAT_JPHM == PAT_JP \o <<" ", "%", "H", "U+6642", "%", "M", "U+5206">>
PAT_JPHMS == PAT_JPHM \o <<"%", "S", "U+79D2">>

KW_ISO == <<"i", "s", "o">>
KW_JP == <<"j", "p">>
KW_JPWD == <<"j", "p", "w", "d">>
KW_JPHM == <<"j", "p", "h", "m">>
KW_JPHMS == <<"j", "p", "h", "m", "s">>

\* a slip: the keyword jp resolved to the pattern of jpwd
get_format_string_jp(format_option) ==
    IF format_option = None THEN PAT_DEFAULT
    ELSE IF format_option = Some(KW_ISO) THEN PAT_ISO
    ELSE IF format_option = Some(KW_JP) THEN PAT_JPWD
    ELSE IF format_option = Some(KW_JPWD) THEN PAT_JPWD
    ELSE IF format_option = Some(KW_JPHM) THEN PAT_JPHM
    ELSE IF format_option = Some(KW_JPHMS) THEN PAT_JPHMS
    ELSE format_option[1]

get_format_string(format_option) ==
    IF format_option = None THEN PAT_DEFAULT
    ELSE IF format_option = Some(KW_ISO) THEN PAT_ISO
    ELSE IF format_option = Some(KW_JP) THEN PAT_JP
    ELSE IF format_option = Some(KW_JPWD) THEN PAT_JPWD
    ELSE IF format_option = Some(KW_JPHM) THEN PAT_JPHM
    ELSE IF format_option = Some(KW_JPHMS) THEN PAT_JPHMS
    ELSE format_option[1]

-----------------------------------------------------------------------------
(* get_japanese_weekday *)

\* a slip: the table counted from Monday
get_japanese_weekday_monday(weekday_num) ==
    IF weekday_num = "0" THEN <<"U+6708">>
    ELSE IF weekday_num = "1" THEN <<"U+706B">>
    ELSE IF weekday_num = "2" THEN <<"U+6C34">>
    ELSE IF weekday_num = "3" THEN <<"U+6728">>
    ELSE IF weekday_num = "4" THEN <<"U+91D1">>
    ELSE IF weekday_num = "5" THEN <<"U+571F">>
    ELSE IF weekday_num = "6" THEN <<"U+65E5">>
    ELSE <<"?">>

get_japanese_weekday(weekday_num) ==
    IF weekday_num = "0" THEN <<"U+65E5">>
    ELSE IF weekday_num = "1" THEN <<"U+6708">>
    ELSE IF weekday_num = "2" THEN <<"U+706B">>
    ELSE IF weekday_num = "3" THEN <<"U+6C34">>
    ELSE IF weekday_num = "4" THEN <<"U+6728">>
    ELSE IF weekday_num = "5" THEN <<"U+91D1">>
    ELSE IF weekday_num = "6" THEN <<"U+571F">>
    ELSE <<"?">>

-----------------------------------------------------------------------------
(* chrono::Duration *)

SECS_PER_MINUTE == 60
SECS_PER_HOUR == 3600
SECS_PER_DAY == 86400
SECS_PER_WEEK == 604800
MILLIS_PER_SEC == 1000

\* the largest whole number of seconds a Duration holds: i64::MAX milliseconds
DURATION_MAX_SECS == DivModSmall(I64_MAX, MILLIS_PER_SEC).q

Ok(v) == [tag |-> "Ok", val |-> v]
Err(text, arg) == [tag |-> "Err", text |-> text, arg |-> arg]
Panic(text) == [tag |-> "Panic", text |-> text]

\* A Duration is a signed whole number of seconds.  Duration::seconds,
\* minutes, hours, days and weeks multiply the count by the seconds of the
\* unit and panic when the product leaves the range of the type.
DurationOf(value, secs_per_unit, name) ==
    LET secs == MulSmall(value.mag, secs_per_unit)
    IN  IF CmpMag(secs, DURATION_MAX_SECS) > 0
        THEN Panic(name)
        ELSE Ok(Signed(value.neg, secs))

-----------------------------------------------------------------------------
(* parse_time_adjustment *)

MSG_EMPTY == "Empty time adjustment string"
MSG_MISSING == "Missing numeric part in '{}'"
MSG_INVALID == "Invalid number: number too large to fit in target type"
MSG_UNIT == "Unknown time unit '{}'. Use s (seconds), m (minutes), h (hours), d (days), or w (weeks)"

\* adj.starts_with(c)
starts_with(adj, c) == adj # <<>> /\ Head(adj) = c

RECURSIVE split_parts(_, _, _)
\* the loop over adj_str.chars(): a digit goes to numeric_part, any other
\* character to unit_part, wherever it stands
split_parts(adj_str, numeric_part, unit_part) ==
    IF adj_str = <<>> THEN [numeric_part |-> numeric_part, unit_part |-> unit_part]
    ELSE IF is_digit(Head(adj_str))
         THEN split_parts(Tail(adj_str), Append(numeric_part, Head(adj_str)), unit_part)
         ELSE split_parts(Tail(adj_str), numeric_part, Append(unit_part, Head(adj_str)))

\* str::parse::<i64> of a non-empty string of decimal digits
parse_i64(numeric_part) ==
    LET m == Strip([i \in 1..Len(numeric_part) |-> DigitVal(numeric_part[i])])
    IN  IF CmpMag(m, I64_MAX) > 0 THEN Err(MSG_INVALID, <<>>) ELSE Ok(m)

\* a slip: an explicit plus sign is left in place
split_sign_plus(adj) ==
    IF starts_with(adj, "-") THEN [is_negative |-> TRUE, adj_str |-> Tail(adj)]
    ELSE [is_negative |-> FALSE, adj_str |-> adj]

\* lines 119-125: the optional sign and the rest of the input
split_sign(adj) ==
    IF starts_with(adj, "-") THEN [is_negative |-> TRUE, adj_str |-> Tail(adj)]
    ELSE IF starts_with(adj, "+") THEN [is_negative |-> FALSE, adj_str |-> Tail(adj)]
    ELSE [is_negative |-> FALSE, adj_str |-> adj]

\* a slip: the unit is checked before the number is parsed
parse_time_adjustment_unit_first(adj) ==
    IF adj = <<>> THEN Err(MSG_EMPTY, <<>>)
    ELSE
    LET is_negative == split_sign(adj).is_negative
        adj_str == split_sign(adj).adj_str
        parts == split_parts(adj_str, <<>>, <<>>)
        numeric_part == parts.numeric_part
        unit_part == parts.unit_part
    IN  IF numeric_part = <<>> THEN Err(MSG_MISSING, adj)
        ELSE IF unit_part \notin {<<"s">>, <<"m">>, <<"h">>, <<"d">>, <<"w">>}
        THEN Err(MSG_UNIT, unit_part)
        ELSE
        LET parsed == parse_i64(numeric_part)
        IN  IF parsed.tag = "Err" THEN parsed
            ELSE
            LET value == Signed(is_negative, parsed.val)
            IN  IF unit_part = <<"s">> THEN DurationOf(value, 1, "Duration::seconds out of bounds")
                ELSE IF unit_part = <<"m">> THEN DurationOf(value, SECS_PER_MINUTE, "Duration::minutes out of bounds")
                ELSE IF unit_part = <<"h">> THEN DurationOf(value, SECS_PER_HOUR, "Duration::hours out of bounds")
                ELSE IF unit_part = <<"d">> THEN DurationOf(value, SECS_PER_DAY, "Duration::days out of bounds")
                ELSE DurationOf(value, SECS_PER_WEEK, "Duration::weeks out of bounds")

parse_time_adjustment(adj) ==
    IF adj = <<>> THEN Err(MSG_EMPTY, <<>>)
    ELSE
    LET is_negative == split_sign(adj).is_negative
        adj_str == split_sign(adj).adj_str
        parts == split_parts(adj_str, <<>>, <<>>)
        numeric_part == parts.numeric_part
        unit_part == parts.unit_part
    IN  IF numeric_part = <<>> THEN Err(MSG_MISSING, adj)
        ELSE
        LET parsed == parse_i64(numeric_part)
        IN  IF parsed.tag = "Err" THEN parsed
            ELSE
            LET value == Signed(is_negative, parsed.val)
            IN  IF unit_part = <<"s">> THEN DurationOf(value, 1, "Duration::seconds out of bounds")
                ELSE IF unit_part = <<"m">> THEN DurationOf(value, SECS_PER_MINUTE, "Duration::minutes out of bounds")
                ELSE IF unit_part = <<"h">> THEN DurationOf(value, SECS_PER_HOUR, "Duration::hours out of bounds")
                ELSE IF unit_part = <<"d">> THEN DurationOf(value, SECS_PER_DAY, "Duration::days out of bounds")
                ELSE IF unit_part = <<"w">> THEN DurationOf(value, SECS_PER_WEEK, "Duration::weeks out of bounds")
                ELSE Err(MSG_UNIT, unit_part)

-----------------------------------------------------------------------------
(* The weekday substitution of main, lines 222-240 *)

\* formatted.chars().nth(i) for a zero-based i, as an Option
chars_nth(s, i) == IF i >= 0 /\ i < Len(s) THEN Some(s[i + 1]) ELSE None

RECURSIVE fold_weekday(_, _, _)
\* the fold over formatted.chars().enumerate(), from the zero-based index i
fold_weekday(s, i, result) ==
    IF i >= Len(s) THEN result
    ELSE
    LET c == s[i + 1]
    IN  IF /\ i > 0
           /\ chars_nth(s, i - 1) = Some("(")
           /\ is_digit(c)
           /\ i + 1 < str_len(s)
           /\ chars_nth(s, i + 1) = Some(")")
        THEN fold_weekday(s, i + 1, result \o get_japanese_weekday(c))
        ELSE IF ~(i > 0 /\ chars_nth(s, i - 1) = Some("(") /\ chars_nth(s, i) = Some(")"))
        THEN fold_weekday(s, i + 1, Append(result, c))
        ELSE fold_weekday(s, i + 1, result)

substitute_weekday(s) == fold_weekday(s, 0, <<>>)

-----------------------------------------------------------------------------
(* chrono: instants, time zones and rendering (main, lines 181, 196, 213, 217) *)

\* DateTime<Utc>::MIN_UTC and MAX_UTC as seconds since the epoch
MIN_UTC_SECS == [neg |-> TRUE, mag |-> <<8, 3, 3, 4, 6, 0, 1, 2, 2, 8, 8, 0, 0>>]
MAX_UTC_SECS == [neg |-> FALSE, mag |-> <<8, 2, 1, 0, 2, 6, 6, 8, 7, 6, 7, 9, 9>>]

InRange(t) == SLeq(MIN_UTC_SECS, t) /\ SLeq(t, MAX_UTC_SECS)

\* Utc.timestamp_opt(dt, 0): Single(dt) inside the range of DateTime, else None
timestamp_opt(dt) == IF InRange(dt) THEN Some(dt) ELSE None

\* datetime + duration: the sum, or a panic when it leaves the range
datetime_add(dt, duration) ==
    LET sum == SAdd(dt, duration)
    IN  IF InRange(sum) THEN Ok(sum) ELSE Panic("DateTime + Duration overflowed")

TZ_UTC == <<"U", "T", "C">>
TZ_JST == <<"J", "S", "T">>
JST_OFFSET_SECS == 32400
JDT_OFFSET_SECS == 36000
LMT_OFFSET_SECS == 33539

\* the instants at which Asia/Tokyo changes its offset: the end of local mean
\* time on 1887-12-31T15:00Z, then the starts and ends of the daylight
\* saving time of the summers of 1948 to 1951
TOKYO_LMT_END == [neg |-> TRUE, mag |-> <<2, 5, 8, 7, 7, 1, 2, 4, 0, 0>>]
TOKYO_JDT == <<[from |-> SInt(-683802000), to |-> SInt(-672310800)],
               [from |-> SInt(-654771600), to |-> SInt(-640861200)],
               [from |-> SInt(-620298000), to |-> SInt(-609411600)],
               [from |-> SInt(-588848400), to |-> SInt(-577962000)]>>

\* t < u
SLess(t, u) == SLeq(t, u) /\ t # u

\* the offset from UTC at the instant dt: 0 for chrono_tz::UTC; for
\* chrono_tz::Asia::Tokyo +9:18:59 before the end of local mean time, +10:00
\* during daylight saving time and +9:00 otherwise
utc_offset(tz, dt) ==
    IF tz # TZ_JST THEN 0
    ELSE IF SLess(dt, TOKYO_LMT_END) THEN LMT_OFFSET_SECS
    ELSE IF \E k \in 1..Len(TOKYO_JDT) :
                SLeq(TOKYO_JDT[k].from, dt) /\ SLess(dt, TOKYO_JDT[k].to)
         THEN JDT_OFFSET_SECS
    ELSE JST_OFFSET_SECS

\* floor(t / k) and t mod k for a signed t, as integers
FloorDivMod(t, k) ==
    LET dm == DivModSmall(t.mag, k)
        q == MagToInt(dm.q)
    IN  IF ~t.neg THEN [q |-> q, r |-> dm.r]
        ELSE IF dm.r = 0 THEN [q |-> -q, r |-> 0]
        ELSE [q |-> -(q + 1), r |-> k - dm.r]

\* the proleptic Gregorian date of a day number counted from 1970-01-01
civil_from_days(days) ==
    LET z == days + 719468
        era == z \div 146097
        doe == z - era * 146097
        yoe == (doe - doe \div 1460 + doe \div 36524 - doe \div 146096) \div 365
        doy == doe - (365 * yoe + yoe \div 4 - yoe \div 100)
        mp == (5 * doy + 2) \div 153
        d == doy - (153 * mp + 2) \div 5 + 1
        m == IF mp < 10 THEN mp + 3 ELSE mp - 9
    IN  [year |-> yoe + era * 400 + (IF m <= 2 THEN 1 ELSE 0), month |-> m, day |-> d]

NatChars(n) == LET ds == NatDigits(n) IN [i \in 1..Len(ds) |-> DigitChar(ds[i])]

RECURSIVE ZeroPad(_, _)
\* a decimal numeral padded with zeros to at least the given width
ZeroPad(cs, width) == IF Len(cs) >= width THEN cs ELSE ZeroPad(<<"0">> \o cs, width)

Pad2(n) == ZeroPad(NatChars(n), 2)

\* %Y: four digits for the years 0..9999, otherwise a sign and at least four digits
YearChars(y) ==
    IF y >= 0 /\ y <= 9999 THEN ZeroPad(NatChars(y), 4)
    ELSE IF y < 0 THEN <<"-">> \o ZeroPad(NatChars(-y), 4)
    ELSE <<"+">> \o ZeroPad(NatChars(y), 4)

\* %z: the offset as +hhmm, rounded to the nearest minute
OffsetChars(off) ==
    LET minutes == ((IF off < 0 THEN -off ELSE off) + 30) \div 60
    IN  (IF off < 0 THEN <<"-">> ELSE <<"+">>)
            \o Pad2(minutes \div 60) \o Pad2(minutes % 60)

\* the fields of an instant in a zone
local_fields(dt, tz) ==
    LET local == FloorDivMod(SAdd(dt, SInt(utc_offset(tz, dt))), SECS_PER_DAY)
        date == civil_from_days(local.q)
    IN  [year |-> date.year, month |-> date.month, day |-> date.day,
         hour |-> local.r \div 3600, minute |-> (local.r % 3600) \div 60,
         second |-> local.r % 60, weekday |-> (local.q + 4) % 7,
         offset |-> utc_offset(tz, dt)]

\* one strftime specifier; the specifiers modelled are those of the keyword
\* patterns and %%
render_spec(f, spec) ==
    CASE spec = "Y" -> YearChars(f.year)
      [] spec = "m" -> Pad2(f.month)
      [] spec = "d" -> Pad2(f.day)
      [] spec = "H" -> Pad2(f.hour)
      [] spec = "M" -> Pad2(f.minute)
      [] spec = "S" -> Pad2(f.second)
      [] spec = "w" -> <<DigitChar(f.weekday)>>
      [] spec = "z" -> OffsetChars(f.offset)
      [] spec = "%" -> <<"%">>

MSG_DISPLAY == "a Display implementation returned an error unexpectedly: Error"

RECURSIVE render_items(_, _)
\* the items of the pattern written one after the other; a '%' that ends the
\* pattern is an error item, on which to_string() panics
render_items(f, pattern) ==
    IF pattern = <<>> THEN Ok(<<>>)
    ELSE IF Head(pattern) = "%" /\ Len(pattern) = 1 THEN Panic(MSG_DISPLAY)
    ELSE LET spec == Head(pattern) = "%"
             rest == render_items(f, SubSeq(pattern, IF spec THEN 3 ELSE 2, Len(pattern)))
         IN  IF rest.tag = "Panic" THEN rest
             ELSE Ok((IF spec THEN render_spec(f, pattern[2]) ELSE <<Head(pattern)>>)
                         \o rest.val)

\* datetime.with_timezone(&tz).format(format_str).to_string()
render(dt, tz, format_str) == render_items(local_fields(dt, tz), format_str)

-----------------------------------------------------------------------------
(* Inputs of a run of main *)

I64_MAX_W == <<"9", "2", "2", "3", "3", "7", "2", "0", "3", "6", "8", "5", "4", "7", "7", "5", "8", "0", "7", "w">>
I64_OVER_S == <<"9", "2", "2", "3", "3", "7", "2", "0", "3", "6", "8", "5", "4", "7", "7", "5", "8", "0", "8", "s">>

\* the positional timestamp as written on the command line: absent, in range
\* (one in a summer of daylight saving time, one in local mean time), the last
\* instant, i64::MAX, and three tokens that are not an i64
Timestamps == {None, Some(<<"0">>), Some(<<"1", "7", "0", "0", "0", "0", "0", "0", "0", "0">>), Some(<<"-", "6", "8", "3", "0", "0", "0", "0", "0", "0">>),
               Some(<<"-", "2", "6", "0", "0", "0", "0", "0", "0", "0", "0">>), Some(<<"8", "2", "1", "0", "2", "6", "6", "8", "7", "6", "7", "9", "9">>),
               Some(<<"9", "2", "2", "3", "3", "7", "2", "0", "3", "6", "8", "5", "4", "7", "7", "5", "8", "0", "7">>),
               Some(<<"a", "b", "c">>),
               Some(<<"9", "2", "2", "3", "3", "7", "2", "0", "3", "6", "8", "5", "4", "7", "7", "5", "8", "0", "8">>),
               Some(<<"-", "9", "2", "2", "3", "3", "7", "2", "0", "3", "6", "8", "5", "4", "7", "7", "5", "8", "0", "9">>)}

\* what Utc::now() may return
Instants == {SInt(1761760000)}

Timezones == {TZ_UTC, TZ_JST, <<"P", "S", "T">>, <<"u", "t", "c">>}

CUSTOM_WD == <<"(", "%", "w", ")">>
CUSTOM_HMS == <<"%", "H", ":", "%", "M", ":", "%", "S">>

CUSTOM_DANGLING == <<"%", "Y", "%">>

Formats == {None, Some(KW_ISO), Some(KW_JP), Some(KW_JPWD), Some(KW_JPHM),
            Some(KW_JPHMS), Some(CUSTOM_WD), Some(CUSTOM_HMS), Some(PAT_JPWD),
            Some(<<"%">>), Some(CUSTOM_DANGLING)}

Adjustments == {None, Some(<<"1", "d">>), Some(<<"-", "3", "0", "s">>),
                Some(<<"+", "2", "h">>), Some(<<"3", "w">>), Some(<<"5", "m">>),
                Some(<<>>), Some(<<"s">>), Some(<<"-">>), Some(<<"1", "0">>),
                Some(<<"1", "0", "x">>), Some(<<"1", "s", "2">>),
                Some(I64_MAX_W), Some(I64_OVER_S)}

ESCAPE == <<"-", "-">>

\* the tokens of an option and its value written after it, of an option with
\* its value attached by '=', of a flag
Separate(flag, v) == IF v = None THEN <<>> ELSE <<flag, v[1]>>
Attached(flag, v) == IF v = None THEN <<>> ELSE <<flag \o <<"=">> \o v[1]>>
Flag(flag, on) == IF on THEN <<flag>> ELSE <<>>

\* untd [-z TZ] [-c] [-f FORMAT] [-a=ADJUST] [-- TIMESTAMP]
CommandLine(ts, tz, copy, fmt, adj) ==
    Separate(<<"-", "z">>, tz) \o Flag(<<"-", "c">>, copy)
        \o Separate(<<"-", "f">>, fmt) \o Attached(<<"-", "a">>, adj)
        \o (IF ts = None THEN <<>> ELSE <<ESCAPE, ts[1]>>)

\* command lines in other spellings and orders: help, unknown and repeated
\* arguments, missing and attached values, clusters of short flags, the
\* timestamp before the options, surplus positionals
OtherCommandLines ==
    {
     <<<<"-", "h">>>>,
     <<<<"-", "-", "h", "e", "l", "p">>>>,
     <<<<"a", "b", "c">>, <<"-", "h">>>>,
     <<<<"0">>, <<"-", "-", "h", "e", "l", "p">>>>,
     <<<<"-", "h", "x">>, <<"0">>>>,
     <<<<"-", "-", "h", "e", "l", "p", "=", "1">>, <<"0">>>>,
     <<<<"-", "c", "h">>>>,
     <<<<"-", "-", "b", "o", "g", "u", "s">>>>,
     <<<<"-", "-", "b", "o", "g", "u", "s", "=", "1">>, <<"0">>>>,
     <<<<"-", "x", "y", "z">>, <<"0">>>>,
     <<<<"a", "b", "c">>, <<"-", "x">>>>,
     <<<<"-", "V">>>>,
     <<<<"-", "-", "c", "o", "p", "y", "=", "f", "a", "l", "s", "e">>>>,
     <<<<"-", "-", "c", "o", "p", "y", "=">>, <<"0">>>>,
     <<<<"a", "b", "c">>, <<"-", "-", "c", "o", "p", "y", "=", "f", "a", "l", "s", "e">>>>,
     <<<<"0">>, <<"1">>>>,
     <<<<"a", "b", "c">>, <<"1">>>>,
     <<<<"a", "b", "c">>, <<"-", "a", "=", "1", "0", "x">>, <<"1">>>>,
     <<<<"0">>, <<"-", "z">>, <<"P", "S", "T">>, <<"-", "a", "=", "1", "0", "x">>>>,
     <<<<"0">>, <<"-", "z">>, <<"P", "S", "T">>, <<"-", "a">>, <<"1", "s", "2">>>>,
     <<<<"0">>, <<"-", "-", "t", "i", "m", "e", "z", "o", "n", "e", "=", "P", "S", "T">>, <<"-", "-", "a", "d", "j", "u", "s", "t", "=", "1", "0", "x">>>>,
     <<<<"-", "a">>, <<"-", "3", "0", "s">>>>,
     <<<<"a", "b", "c">>, <<"-", "a">>, <<"-", "3", "0", "s">>>>,
     <<<<"-", "a">>, <<"-">>>>,
     <<<<"-", "a">>>>,
     <<<<"-", "z">>>>,
     <<<<"-", "a">>, <<"-", "c">>>>,
     <<<<"-", "a">>, <<"-", "-">>, <<"0">>>>,
     <<<<"0">>, <<"-", "a">>>>,
     <<<<"-", "z">>, <<"U", "T", "C">>, <<"-", "z">>, <<"J", "S", "T">>, <<"0">>>>,
     <<<<"-", "z", "U", "T", "C">>, <<"-", "z", "J", "S", "T">>>>,
     <<<<"-", "c">>, <<"-", "c">>>>,
     <<<<"-", "c", "c">>>>,
     <<<<"-", "-", "c", "o", "p", "y">>, <<"-", "-", "c", "o", "p", "y">>>>,
     <<<<"-", "z", "U", "T", "C">>, <<"0">>>>,
     <<<<"-", "c", "z">>, <<"P", "S", "T">>, <<"-", "a">>, <<"1", "0", "x">>>>,
     <<<<"-", "c", "z", "U", "T", "C">>, <<"-", "f", "i", "s", "o">>, <<"0">>>>,
     <<<<"-", "-">>, <<"-", "6", "8", "3", "0", "0", "0", "0", "0", "0">>>>,
     <<<<"-", "-">>, <<"0">>, <<"-", "h">>>>,
     <<<<"-", "-">>, <<"-", "h">>>>,
     <<<<"-", "6", "8", "3", "0", "0", "0", "0", "0", "0">>>>,
     <<<<"-">>, <<>>>>,
     <<<<"+", "5">>>>,
     <<<<"-", "-", "t", "i", "m", "e", "z", "o", "n", "e", "=">>, <<"0">>>>,
     <<<<"-", "z", "=">>, <<"0">>>>,
     <<<<"a", "b", "c">>, <<"-", "c">>>>
    }

\* the command line, as the sequence of the tokens after the program name
Argv == {CommandLine(ts, tz, copy, fmt, adj) :
            ts \in Timestamps, tz \in {None} \cup {Some(z) : z \in Timezones},
            copy \in BOOLEAN, fmt \in Formats, adj \in Adjustments}
        \cup OtherCommandLines

-----------------------------------------------------------------------------
(* main *)

EXIT_FAILURE == 1
EXIT_PANIC == 101

\* a printed line: the format string of the print, the format string of a
\* nested message ("" when there is none) and the interpolated text
Line(fmt, inner, arg) == [fmt |-> fmt, inner |-> inner, arg |-> arg]

NoClipboard == [acquired |-> 0, text |-> None]

\* println!(line); std::process::exit(1)
Fail(line) ==
    /\ stdout' = Append(stdout, line)
    /\ exit_code' = Some(EXIT_FAILURE)
    /\ pc' = "exited"

\* a panic: the message goes to standard error and the process ends with 101
Abort(text) ==
    /\ stderr' = Append(stderr, Line("thread 'main' panicked: {}", text, <<>>))
    /\ exit_code' = Some(EXIT_PANIC)
    /\ pc' = "exited"

\* i64::MIN = -9223372036854775808
I64_MIN_MAG == <<9, 2, 2, 3, 3, 7, 2, 0, 3, 6, 8, 5, 4, 7, 7, 5, 8, 0, 8>>

MSG_INT_EMPTY == "cannot parse integer from empty string"
MSG_INT_DIGIT == "invalid digit found in string"
MSG_INT_POS == "number too large to fit in target type"
MSG_INT_NEG == "number too small to fit in target type"

RECURSIVE scan_digits(_, _, _)
\* the digits of an i64 read from left to right: the first character that is
\* no digit, or the first digit that takes the value out of the range, ends
\* the scan with its error
scan_digits(cs, acc, neg) ==
    IF cs = <<>> THEN Ok(acc)
    ELSE IF ~is_digit(Head(cs)) THEN Err(MSG_INT_DIGIT, <<>>)
    ELSE LET next == Strip(Append(acc, DigitVal(Head(cs))))
         IN  IF CmpMag(next, IF neg THEN I64_MIN_MAG ELSE I64_MAX) > 0
             THEN Err(IF neg THEN MSG_INT_NEG ELSE MSG_INT_POS, <<>>)
             ELSE scan_digits(Tail(cs), next, neg)

\* line 161: str::parse::<i64>, the value parser of the positional timestamp
i64_from_str(src) ==
    IF src = <<>> THEN Err(MSG_INT_EMPTY, <<>>)
    ELSE IF src \in {<<"+">>, <<"-">>} THEN Err(MSG_INT_DIGIT, <<>>)
    ELSE LET neg == Head(src) = "-"
             r == scan_digits(IF Head(src) \in {"+", "-"} THEN Tail(src) ELSE src,
                              <<>>, neg)
         IN  IF r.tag = "Ok" THEN Ok(Signed(neg, r.val)) ELSE r

EXIT_USAGE == 2
HELP_TEXT == "Usage: untd [OPTIONS] [TIMESTAMP]"

\* the parser ends the process itself: a line on one stream and a status
Exit(code, stream, line) == [tag |-> "Exit", code |-> code, stream |-> stream, line |-> line]

UsageError(line) == Exit(EXIT_USAGE, "stderr", line)

\* the arguments of Args and the help flag that clap adds: the identifier of
\* a short and of a long name ("none" when there is no such argument)
ShortId(c) ==
    CASE c = "z" -> "timezone"
      [] c = "c" -> "copy"
      [] c = "f" -> "format"
      [] c = "a" -> "adjust"
      [] c = "h" -> "help"
      [] OTHER -> "none"

LongId(name) ==
    CASE name = <<"t", "i", "m", "e", "z", "o", "n", "e">> -> "timezone"
      [] name = <<"c", "o", "p", "y">> -> "copy"
      [] name = <<"f", "o", "r", "m", "a", "t">> -> "format"
      [] name = <<"a", "d", "j", "u", "s", "t">> -> "adjust"
      [] name = <<"h", "e", "l", "p">> -> "help"
      [] OTHER -> "none"

TakesValue(id) == id \in {"timezone", "format", "adjust"}

\* how an error message names the argument
Display(id) ==
    CASE id = "timezone" -> "--timezone <TIMEZONE>"
      [] id = "copy" -> "--copy"
      [] id = "format" -> "--format <FORMAT>"
      [] id = "adjust" -> "--adjust <ADJUST>"
      [] id = "help" -> "--help"
      [] id = "timestamp" -> "[TIMESTAMP]"

MSG_UNEXPECTED_ARG == "error: unexpected argument '{}' found"
MSG_UNEXPECTED_VALUE == "error: unexpected value '{}' for '{}' found; no more were expected"
MSG_INVALID_VALUE == "error: invalid value '{}' for '[TIMESTAMP]': {}"
MSG_EMPTY_VALUE == "error: a value is required for '{}' but none was supplied"
MSG_MULTIPLE == "error: the argument '{}' cannot be used multiple times"

\* a token that is read as a long flag (with its name and the value after
\* the first '='), as a cluster of short flags; "-" and "" are values
is_escape(t) == t = ESCAPE
is_long(t) == Len(t) > 2 /\ t[1] = "-" /\ t[2] = "-"
is_short(t) == Len(t) >= 2 /\ t[1] = "-" /\ t[2] # "-"

IndexOfEq(cs) ==
    IF \E i \in 1..Len(cs) : cs[i] = "="
    THEN CHOOSE i \in 1..Len(cs) : cs[i] = "=" /\ \A k \in 1..(i - 1) : cs[k] # "="
    ELSE 0

\* the part of a name with value before the first '=', and the part after it
NameOf(rest, eq) == IF eq = 0 THEN rest ELSE SubSeq(rest, 1, eq - 1)
ValueOf(rest, eq) == IF eq = 0 THEN None ELSE Some(SubSeq(rest, eq + 1, Len(rest)))

long_name(t) == NameOf(SubSeq(t, 3, Len(t)), IndexOfEq(SubSeq(t, 3, Len(t))))
long_value(t) == ValueOf(SubSeq(t, 3, Len(t)), IndexOfEq(SubSeq(t, 3, Len(t))))

\* the state of the parser before the first token: no token -- seen, no
\* option waiting for its value, no values pending, the next positional is
\* the first, nothing matched
ParserStart ==
    [trailing |-> FALSE, opt |-> "none", pending |-> None, pos |-> 1,
     m |-> [timestamp |-> None, timezone |-> None, format |-> None,
            adjust |-> None, copy |-> None]]

\* the timestamp is the value its parser returns, or the run ends
set_timestamp(st, t, parsed) ==
    IF parsed.tag = "Err" THEN UsageError(Line(MSG_INVALID_VALUE, parsed.text, t))
    ELSE Ok([st EXCEPT !.m["timestamp"] = Some(parsed.val)])

\* an argument that takes a value is given its values: one value is
\* required, the argument may be given once, and the timestamp is parsed
set_values(st, id, vals) ==
    IF vals = <<>> THEN UsageError(Line(MSG_EMPTY_VALUE, Display(id), <<>>))
    ELSE IF st.m[id] # None THEN UsageError(Line(MSG_MULTIPLE, Display(id), <<>>))
    ELSE IF id = "timestamp" THEN set_timestamp(st, vals[1], i64_from_str(vals[1]))
    ELSE Ok([st EXCEPT !.m[id] = Some(vals[1])])

\* the values collected for the last positional or option are given to it
resolve_pending(st) ==
    IF st.pending = None THEN Ok(st)
    ELSE set_values([st EXCEPT !.pending = None], st.pending[1].id, st.pending[1].vals)

\* no option waits for a value any more
values_done(r) == IF r.tag # "Ok" THEN r ELSE Ok([r.val EXCEPT !.opt = "none"])

\* with the pending values resolved (r), --help ends the run, --copy is set,
\* an option takes its value
react_resolved(r, id, vals) ==
    IF r.tag # "Ok" THEN r
    ELSE IF id = "help" THEN Exit(0, "stdout", Line(HELP_TEXT, "", <<>>))
    ELSE IF id = "copy"
         THEN IF r.val.m[id] # None
              THEN UsageError(Line(MSG_MULTIPLE, Display(id), <<>>))
              ELSE Ok([r.val EXCEPT !.m[id] = Some(TRUE), !.opt = "none"])
    ELSE values_done(set_values(r.val, id, vals))

\* an argument met on the command line acts, after the pending values are
\* resolved
react(st, id, vals) == react_resolved(resolve_pending(st), id, vals)

\* with the pending values resolved (r), the option waits for the next token
wait_for_value(r, id) ==
    IF r.tag # "Ok" THEN r
    ELSE Ok([r.val EXCEPT !.pending = Some([id |-> id, vals |-> <<>>]), !.opt = id])

\* an option with its value attached acts at once; without one it waits for
\* the next token
parse_opt_value(st, id, attached) ==
    IF attached # None THEN react(st, id, attached)
    ELSE wait_for_value(resolve_pending(st), id)

\* the long argument of the given name and value: an unknown name and a
\* value attached to a flag are reported without resolving the pending values
long_arg(st, id, name, value) ==
    IF id = "none" THEN UsageError(Line(MSG_UNEXPECTED_ARG, "", ESCAPE \o name))
    ELSE IF TakesValue(id) THEN parse_opt_value(st, id, value)
    ELSE IF value # None THEN UsageError(Line(MSG_UNEXPECTED_VALUE, Display(id), value[1]))
    ELSE react(st, id, <<>>)

parse_long_arg(st, t) == long_arg(st, LongId(long_name(t)), long_name(t), long_value(t))

\* the number of letters c that lead a cluster of short flags
LeadingCopies(cs) == Cardinality({i \in 1..Len(cs) : \A k \in 1..i : cs[k] = "c"})

\* the leading letters c of a cluster act one after the other: the second
\* finds --copy set
leading_copies(st, n) ==
    IF n = 0 THEN Ok(st)
    ELSE IF n = 1 THEN react(st, "copy", <<>>)
    ELSE react_resolved(react(st, "copy", <<>>), "copy", <<>>)

\* the letter at k after the leading letters c have acted (r): -h acts, an
\* option takes the rest of the token, less a leading '=', as its value, an
\* unknown letter is reported
short_letter(r, cs, k) ==
    IF r.tag # "Ok" \/ k > Len(cs) THEN r
    ELSE IF ShortId(cs[k]) = "none"
    THEN UsageError(Line(MSG_UNEXPECTED_ARG, "", <<"-", cs[k]>>))
    ELSE IF ShortId(cs[k]) = "help" THEN react(r.val, "help", <<>>)
    ELSE parse_opt_value(r.val, ShortId(cs[k]),
                         IF k = Len(cs) THEN None
                         ELSE IF cs[k + 1] = "=" THEN Some(SubSeq(cs, k + 2, Len(cs)))
                         ELSE Some(SubSeq(cs, k + 1, Len(cs))))

\* the letters of a cluster from left to right; a flag acts and the next
\* letter is read, and the only flag that does not end the run is -c
parse_short_arg(st, cs) ==
    short_letter(leading_copies(st, LeadingCopies(cs)), cs, LeadingCopies(cs) + 1)

\* with the pending values resolved (r), the token is the pending timestamp
wait_as_timestamp(r, t) ==
    IF r.tag # "Ok" THEN r
    ELSE Ok([r.val EXCEPT !.pending = Some([id |-> "timestamp", vals |-> <<t>>]),
                          !.pos = 2, !.opt = "none"])

\* a positional token: the first is the timestamp, kept pending; a further
\* one is reported without resolving the pending values
parse_positional(st, t) ==
    IF st.pos # 1 THEN UsageError(Line(MSG_UNEXPECTED_ARG, "", t))
    ELSE wait_as_timestamp(resolve_pending(st), t)

\* one token: before -- a token that looks like a flag is read as one, also
\* when an option waits for its value; another token is the value of the
\* waiting option or else a positional
parse_token(st, t) ==
    IF ~st.trailing /\ is_escape(t) THEN Ok([st EXCEPT !.trailing = TRUE])
    ELSE IF ~st.trailing /\ is_long(t) THEN parse_long_arg(st, t)
    ELSE IF ~st.trailing /\ is_short(t) THEN parse_short_arg(st, Tail(t))
    ELSE IF ~st.trailing /\ st.opt # "none"
    THEN Ok([st EXCEPT !.pending = Some([id |-> st.opt, vals |-> <<t>>]), !.opt = "none"])
    ELSE parse_positional(st, t)

RECURSIVE get_matches(_, _)
\* the tokens from left to right, then the values still pending; r is the
\* outcome of the tokens read so far
get_matches(r, tokens) ==
    IF r.tag # "Ok" THEN r
    ELSE IF tokens = <<>> THEN resolve_pending(r.val)
    ELSE get_matches(parse_token(r.val, Head(tokens)), Tail(tokens))

\* the record of arguments of a parsed command line: an absent -z gives the
\* default "JST", and copy is true with or without -c
matched_args(r) ==
    IF r.tag # "Ok" THEN r
    ELSE Ok([timestamp |-> r.val.m.timestamp,
             timezone |-> IF r.val.m.timezone = None THEN TZ_JST ELSE r.val.m.timezone[1],
             copy |-> TRUE,
             format |-> r.val.m.format,
             adjust |-> r.val.m.adjust])

\* lines 158-175 and 178: Args::parse() ends the run at the first token that
\* asks for help or is in error
Args_parse(av) == matched_args(get_matches(Ok(ParserStart), av))

\* the record of arguments before the command line is parsed
DefaultArgs == [timestamp |-> None, timezone |-> TZ_JST, copy |-> TRUE,
                format |-> None, adjust |-> None]

\* the effect of the outcome r of Args::parse()
Parse(r) ==
    IF r.tag = "Ok"
    THEN /\ args' = r.val
         /\ pc' = "timestamp"
         /\ UNCHANGED <<stdout, stderr, exit_code>>
    ELSE /\ stdout' = IF r.stream = "stdout" THEN Append(stdout, r.line) ELSE stdout
         /\ stderr' = IF r.stream = "stderr" THEN Append(stderr, r.line) ELSE stderr
         /\ exit_code' = Some(r.code)
         /\ pc' = "exited"
         /\ UNCHANGED args

\* line 178
ParseArgs ==
    /\ pc = "parse"
    /\ Parse(Args_parse(argv))
    /\ UNCHANGED <<argv, datetime, formatted, output, clipboard, fnVars>>

\* lines 180-190
ResolveTimestamp ==
    /\ pc = "timestamp"
    /\ IF args.timestamp # None
       THEN IF timestamp_opt(args.timestamp[1]) # None
            THEN /\ datetime' = timestamp_opt(args.timestamp[1])[1]
                 /\ pc' = "adjust"
                 /\ UNCHANGED <<stdout, exit_code>>
            ELSE /\ Fail(Line("Invalid timestamp", "", <<>>))
                 /\ UNCHANGED datetime
       ELSE /\ datetime' \in Instants
            /\ pc' = "adjust"
            /\ UNCHANGED <<stdout, exit_code>>
    /\ UNCHANGED <<argv, args, formatted, output, stderr, clipboard, fnVars>>

\* a slip: a rejected adjustment is skipped instead of ending the run
ApplyAdjustment_skip ==
    /\ pc = "adjust"
    /\ IF args.adjust = None
       THEN /\ pc' = "timezone"
            /\ UNCHANGED <<datetime, stdout, stderr, exit_code>>
       ELSE LET r == parse_time_adjustment(args.adjust[1])
            IN  CASE r.tag = "Ok" ->
                       LET sum == datetime_add(datetime, r.val)
                       IN  IF sum.tag = "Ok"
                           THEN /\ datetime' = sum.val
                                /\ pc' = "timezone"
                                /\ UNCHANGED <<stdout, stderr, exit_code>>
                           ELSE /\ Abort(sum.text)
                                /\ UNCHANGED <<datetime, stdout>>
                  [] r.tag = "Err" ->
                       /\ pc' = "timezone"
                       /\ UNCHANGED <<datetime, stdout, stderr, exit_code>>
                  [] r.tag = "Panic" ->
                       /\ Abort(r.text)
                       /\ UNCHANGED <<datetime, stdout>>
    /\ UNCHANGED <<argv, args, formatted, output, clipboard, fnVars>>

\* lines 193-203
ApplyAdjustment ==
    /\ pc = "adjust"
    /\ IF args.adjust = None
       THEN /\ pc' = "timezone"
            /\ UNCHANGED <<datetime, stdout, stderr, exit_code>>
       ELSE LET r == parse_time_adjustment(args.adjust[1])
            IN  CASE r.tag = "Ok" ->
                       LET sum == datetime_add(datetime, r.val)
                       IN  IF sum.tag = "Ok"
                           THEN /\ datetime' = sum.val
                                /\ pc' = "timezone"
                                /\ UNCHANGED <<stdout, stderr, exit_code>>
                           ELSE /\ Abort(sum.text)
                                /\ UNCHANGED <<datetime, stdout>>
                  [] r.tag = "Err" ->
                       /\ Fail(Line("Error in time adjustment: {}", r.text, r.arg))
                       /\ UNCHANGED <<datetime, stderr>>
                  [] r.tag = "Panic" ->
                       /\ Abort(r.text)
                       /\ UNCHANGED <<datetime, stdout>>
    /\ UNCHANGED <<argv, args, formatted, output, clipboard, fnVars>>

\* lines 205-212
ResolveTimezone ==
    /\ pc = "timezone"
    /\ IF args.timezone = TZ_UTC \/ args.timezone = TZ_JST
       THEN /\ pc' = "render"
            /\ UNCHANGED <<stdout, exit_code>>
       ELSE Fail(Line("Invalid timezone", "", <<>>))
    /\ UNCHANGED <<argv, args, datetime, formatted, output, stderr, clipboard, fnVars>>

\* a slip: the substitution runs for every format option that is given
output_of_any(format, rendered) ==
    IF format # None THEN substitute_weekday(rendered) ELSE rendered

\* lines 220-243: the substitution runs for the keyword jpwd only
output_of(format, rendered) ==
    IF format = Some(KW_JPWD) THEN substitute_weekday(rendered) ELSE rendered

\* lines 213-243
Render ==
    /\ pc = "render"
    /\ LET rendered == render(datetime, args.timezone, get_format_string(args.format))
       IN  IF rendered.tag = "Ok"
           THEN /\ formatted' = rendered.val
                /\ output' = output_of(args.format, rendered.val)
                /\ pc' = "print"
                /\ UNCHANGED <<stderr, exit_code>>
           ELSE /\ Abort(rendered.text)
                /\ UNCHANGED <<formatted, output>>
    /\ UNCHANGED <<argv, args, datetime, stdout, clipboard, fnVars>>

\* line 245
PrintOutput ==
    /\ pc = "print"
    /\ stdout' = Append(stdout, Line("{}", "", output))
    /\ pc' = IF args.copy THEN "clipboard" ELSE "return"
    /\ UNCHANGED <<argv, args, datetime, formatted, output, stderr, exit_code, clipboard, fnVars>>

\* line 248: arboard::Clipboard::new() succeeds or fails
ClipboardNew ==
    /\ pc = "clipboard"
    /\ \E ok \in BOOLEAN :
          IF ok
          THEN /\ clipboard' = [clipboard EXCEPT !.acquired = @ + 1]
               /\ pc' = "set_text"
               /\ UNCHANGED stderr
          ELSE /\ stderr' = Append(stderr, Line("Failed to access clipboard: {}", "clipboard error", <<>>))
               /\ pc' = "return"
               /\ UNCHANGED clipboard
    /\ UNCHANGED <<argv, args, datetime, formatted, output, stdout, exit_code, fnVars>>

\* lines 250-254: clipboard.set_text(&output) succeeds or fails
ClipboardSetText ==
    /\ pc = "set_text"
    /\ \E ok \in BOOLEAN :
          IF ok
          THEN /\ clipboard' = [clipboard EXCEPT !.text = Some(output)]
               /\ stdout' = Append(stdout, Line("Copied to clipboard!", "", <<>>))
               /\ UNCHANGED stderr
          ELSE /\ stderr' = Append(stderr, Line("Failed to copy to clipboard: {}", "clipboard error", <<>>))
               /\ UNCHANGED <<clipboard, stdout>>
    /\ pc' = "return"
    /\ UNCHANGED <<argv, args, datetime, formatted, output, exit_code, fnVars>>

\* line 259: main returns and the process ends with status 0
Return ==
    /\ pc = "return"
    /\ exit_code' = Some(0)
    /\ pc' = "exited"
    /\ UNCHANGED <<argv, args, datetime, formatted, output, stdout, stderr, clipboard, fnVars>>

NoCall == [fn |-> "none"]
Pending == [tag |-> "Pending"]

Init ==
    /\ pc = "parse"
    /\ argv \in Argv
    /\ args = DefaultArgs
    /\ datetime = SInt(0)
    /\ formatted = <<>>
    /\ output = <<>>
    /\ stdout = <<>>
    /\ stderr = <<>>
    /\ exit_code = None
    /\ clipboard = NoClipboard
    /\ call = NoCall
    /\ ret = Pending

Next ==
    \/ ParseArgs
    \/ ResolveTimestamp
    \/ ApplyAdjustment
    \/ ResolveTimezone
    \/ Render
    \/ PrintOutput
    \/ ClipboardNew
    \/ ClipboardSetText
    \/ Return

Spec == Init /\ [][Next]_vars

-----------------------------------------------------------------------------
(* The functions on their own: one call of a function on one input *)

MaxAdjLen == 3
MaxFmtLen == 2
MaxSubLen == 4

StringsUpTo(alphabet, n) == UNION {[1..k -> alphabet] : k \in 0..n}

Units == {"s", "m", "h", "d", "w"}

\* the seconds of a unit, as the Duration constructors of lines 149-153 use them
UnitSecs(u) ==
    CASE u = "s" -> 1
      [] u = "m" -> SECS_PER_MINUTE
      [] u = "h" -> SECS_PER_HOUR
      [] u = "d" -> SECS_PER_DAY
      [] u = "w" -> SECS_PER_WEEK

MagChars(m) == [i \in 1..Len(m) |-> DigitChar(m[i])]

\* format!("{}", n) of a non-negative integer
DisplayMag(m) == IF m = <<>> THEN <<"0">> ELSE MagChars(m)

AdjAlphabet == {"-", "+", "0", "1", "9", "s", "m", "h", "d", "w", "x"}

\* the largest count of a unit a Duration holds, and its successor
UnitMax(u) == DivModSmall(DURATION_MAX_SECS, UnitSecs(u)).q

Signs == {<<>>, <<"-">>, <<"+">>}

\* long inputs around the limits of i64 and of Duration
LongAdjustments ==
    {sg \o DisplayMag(n) \o <<u>> :
        sg \in Signs, u \in Units \cup {"x"},
        n \in {I64_MAX, AddMag(I64_MAX, <<1>>)}}
    \cup
    {sg \o DisplayMag(n) \o <<u>> :
        sg \in Signs,
        u \in Units, n \in {UnitMax("s"), AddMag(UnitMax("s"), <<1>>),
                            UnitMax("w"), AddMag(UnitMax("w"), <<1>>)}}
    \cup
    {<<"1", "0", "s", "5">>, <<"s", "1", "0", "0">>, <<"0", "0", "0", "7", "d">>,
     <<"1", "2", "3", "4", "5", "m">>}

AdjInputs == StringsUpTo(AdjAlphabet, MaxAdjLen) \cup LongAdjustments

FmtAlphabet == {"j", "p", "w", "d", "%", "Y"}
Keywords == {KW_ISO, KW_JP, KW_JPWD, KW_JPHM, KW_JPHMS}

FmtInputs ==
    {None}
    \cup {Some(f) : f \in StringsUpTo(FmtAlphabet, MaxFmtLen)}
    \cup {Some(k) : k \in Keywords}
    \cup {Some(k \o <<c>>) : k \in Keywords, c \in FmtAlphabet}
    \cup {Some(<<"I", "S", "O">>), Some(<<"J", "P">>), Some(<<" ", "j", "p">>),
          Some(PAT_DEFAULT), Some(PAT_JPWD), Some(CUSTOM_HMS)}

WeekdayInputs == {DigitChars[i] : i \in 1..10} \cup {"a", "(", "-", "U+65E5"}

SubAlphabet == {"(", ")", "3", "9", "a", "U+65E5"}

SubInputs ==
    StringsUpTo(SubAlphabet, MaxSubLen)
    \cup {<<"x", "(", DigitChars[i], ")", "y">> : i \in 1..10}
    \cup {render(t, tz, PAT_JPWD).val : t \in {SInt(0), SInt(86400), SInt(1700000000)},
                                   tz \in {TZ_UTC, TZ_JST}}

Calls ==
    {[fn |-> "parse_time_adjustment", adj |-> a] : a \in AdjInputs}
    \cup {[fn |-> "get_format_string", format_option |-> f] : f \in FmtInputs}
    \cup {[fn |-> "get_japanese_weekday", weekday_num |-> c] : c \in WeekdayInputs}
    \cup {[fn |-> "substitute_weekday", formatted |-> x] : x \in SubInputs}

Returned(v) == [tag |-> "Returned", val |-> v]

\* the defaults of the command line (lines 160-175)
DefaultArgv == <<>>

FnInit ==
    /\ pc = "idle"
    /\ argv = DefaultArgv
    /\ args = DefaultArgs
    /\ datetime = SInt(0)
    /\ formatted = <<>>
    /\ output = <<>>
    /\ stdout = <<>>
    /\ stderr = <<>>
    /\ exit_code = None
    /\ clipboard = NoClipboard
    /\ call \in Calls
    /\ ret = Pending

CallParse ==
    /\ call.fn = "parse_time_adjustment"
    /\ ret.tag = "Pending"
    /\ ret' = parse_time_adjustment(call.adj)
    /\ UNCHANGED <<call, mainVars>>

CallFormat ==
    /\ call.fn = "get_format_string"
    /\ ret.tag = "Pending"
    /\ ret' = Returned(get_format_string(call.format_option))
    /\ UNCHANGED <<call, mainVars>>

CallWeekday ==
    /\ call.fn = "get_japanese_weekday"
    /\ ret.tag = "Pending"
    /\ ret' = Returned(get_japanese_weekday(call.weekday_num))
    /\ UNCHANGED <<call, mainVars>>

CallSubstitute ==
    /\ call.fn = "substitute_weekday"
    /\ ret.tag = "Pending"
    /\ ret' = Returned(substitute_weekday(call.formatted))
    /\ UNCHANGED <<call, mainVars>>

FnNext ==
    \/ CallParse
    \/ CallFormat
    \/ CallWeekday
    \/ CallSubstitute

SpecFn == FnInit /\ [][FnNext]_vars

-----------------------------------------------------------------------------
(* Properties of get_format_string *)

Claimed_DEFAULT == <<"%", "Y", "-", "%", "m", "-", "%", "d">>
Claimed_ISO == <<"%", "Y", "-", "%", "m", "-", "%", "d", "T", "%", "H", ":", "%", "M", ":", "%", "S", "%", "z">>
Claimed_JP == <<"%", "Y", "U+5E74", "%", "m", "U+6708", "%", "d", "U+65E5">>
Claimed_JPWD == <<"%", "Y", "U+5E74", "%", "m", "U+6708", "%", "d", "U+65E5", "(", "%", "w", ")">>
Claimed_JPHM == <<"%", "Y", "U+5E74", "%", "m", "U+6708", "%", "d", "U+65E5", " ", "%", "H", "U+6642", "%", "M", "U+5206">>
Claimed_JPHMS == <<"%", "Y", "U+5E74", "%", "m", "U+6708", "%", "d", "U+65E5", " ", "%", "H", "U+6642", "%", "M", "U+5206", "%", "S", "U+79D2">>

FormatCalled == call.fn = "get_format_string" /\ ret.tag # "Pending"

\* C4: get_format_string always returns a pattern: the date-only pattern for
\* an absent option, the fixed pattern of each of the keywords iso, jp, jpwd,
\* jphm and jphms, and any other string exactly as it was given.
C4_FormatResolution ==
    call.fn = "get_format_string" /\ ret.tag # "Pending" =>
        /\ ret.tag = "Returned"
        /\ LET o == call.format_option
           IN  /\ o = None => ret.val = Claimed_DEFAULT
               /\ o = <<<<"i", "s", "o">>>> => ret.val = Claimed_ISO
               /\ o = <<<<"j", "p">>>> => ret.val = Claimed_JP
               /\ o = <<<<"j", "p", "w", "d">>>> => ret.val = Claimed_JPWD
               /\ o = <<<<"j", "p", "h", "m">>>> => ret.val = Claimed_JPHM
               /\ o = <<<<"j", "p", "h", "m", "s">>>> => ret.val = Claimed_JPHMS
               /\ (o # None /\ o[1] \notin {<<"i", "s", "o">>, <<"j", "p">>,
                                            <<"j", "p", "w", "d">>, <<"j", "p", "h", "m">>,
                                            <<"j", "p", "h", "m", "s">>})
                     => ret.val = o[1]

\* a string one character short of a keyword came back unchanged
C4_Witness ==
    /\ FormatCalled
    /\ call.format_option = <<<<"j", "p", "w">>>>
    /\ ret.val = <<"j", "p", "w">>

-----------------------------------------------------------------------------
(* Properties of parse_time_adjustment *)

ParseCalled == call.fn = "parse_time_adjustment" /\ ret.tag # "Pending"

IsDigitChar(c) == c \in {"0", "1", "2", "3", "4", "5", "6", "7", "8", "9"}
IsOtherChar(c) == ~IsDigitChar(c)

\* the input without its optional sign
Unsigned(adj) ==
    IF adj # <<>> /\ adj[1] \in {"-", "+"} THEN SubSeq(adj, 2, Len(adj)) ELSE adj

\* the number of leading zeros of a digit string
LeadingZeros(ds) ==
    Cardinality({i \in 1..Len(ds) : \A j \in 1..i : ds[j] = "0"})

\* the decimal value of a digit string is at most i64::MAX: it has fewer
\* than 19 significant digits, or 19 that do not exceed those of i64::MAX
FitsI64(ds) ==
    LET z == LeadingZeros(ds)
        sig == SubSeq(ds, z + 1, Len(ds))
        top == <<"9", "2", "2", "3", "3", "7", "2", "0", "3", "6", "8", "5", "4", "7", "7", "5", "8", "0", "7">>
    IN  \/ Len(sig) < 19
        \/ /\ Len(sig) = 19
           /\ \/ sig = top
              \/ \E i \in 1..19 :
                    /\ \A j \in 1..(i - 1) : sig[j] = top[j]
                    /\ DigitVal(sig[i]) < DigitVal(top[i])

\* C3: the error parse_time_adjustment returns is decided by the first check
\* that fails, in the order: empty input, no digit after the optional sign,
\* digits that do not fit a signed 64-bit integer, a unit token that is not
\* exactly one of s, m, h, d, w (the empty token included); and it returns
\* no error when every check passes.
C3_ErrorOrder ==
    ParseCalled =>
        LET adj == call.adj
            digits == SelectSeq(Unsigned(adj), IsDigitChar)
            unit == SelectSeq(Unsigned(adj), IsOtherChar)
        IN  IF adj = <<>>
            THEN ret.tag = "Err" /\ ret.text = "Empty time adjustment string"
            ELSE IF digits = <<>>
            THEN ret.tag = "Err" /\ ret.text = "Missing numeric part in '{}'" /\ ret.arg = adj
            ELSE IF ~FitsI64(digits)
            THEN ret.tag = "Err" /\ ret.text = "Invalid number: number too large to fit in target type"
            ELSE IF unit \notin {<<"s">>, <<"m">>, <<"h">>, <<"d">>, <<"w">>}
            THEN /\ ret.tag = "Err"
                 /\ ret.text = "Unknown time unit '{}'. Use s (seconds), m (minutes), h (hours), d (days), or w (weeks)"
                 /\ ret.arg = unit
            ELSE ret.tag # "Err"

\* a number beyond i64 with an unknown unit was reported as an invalid number
C3_Witness ==
    /\ ParseCalled
    /\ call.adj = DisplayMag(AddMag(I64_MAX, <<1>>)) \o <<"x">>
    /\ ret.tag = "Err"
    /\ ret.text = MSG_INVALID

\* adj is "{n}{u}", "+{n}{u}" or "-{n}{u}": the decimal numeral of a
\* non-negative integer n, without leading zeros, followed by a unit
IsRoundTripInput(adj) ==
    LET rest == Unsigned(adj)
    IN  /\ Len(rest) >= 2
        /\ rest[Len(rest)] \in Units
        /\ \A i \in 1..(Len(rest) - 1) : IsDigitChar(rest[i])
        /\ Len(rest) > 2 => rest[1] # "0"

\* the n of such an input, as a magnitude
NumeralOf(adj) ==
    LET rest == Unsigned(adj)
    IN  Strip([i \in 1..(Len(rest) - 1) |-> DigitVal(rest[i])])

UnitOf(adj) == adj[Len(adj)]

\* n units of u are within the range of the duration type
InDurationRange(n, u) == CmpMag(MulSmall(n, UnitSecs(u)), DURATION_MAX_SECS) <= 0

\* the result is the duration of n units of u, negated when neg
IsDurationOf(r, neg, n, u) ==
    /\ r.tag = "Ok"
    /\ r.val.mag = MulSmall(n, UnitSecs(u))
    /\ r.val.neg = (neg /\ n # <<>>)
    /\ Len(n) <= 3 => MagToInt(r.val.mag) = MagToInt(n) * UnitSecs(u)

\* C2 as amended: for every unit u and every non-negative n for which n units
\* of u are within the range of the duration type, "{n}{u}" and "+{n}{u}"
\* yield the duration of n units of u and "-{n}{u}" its negation; for a
\* larger n no duration is returned.
C2_RoundTripInRange ==
    ParseCalled /\ IsRoundTripInput(call.adj) =>
        IF InDurationRange(NumeralOf(call.adj), UnitOf(call.adj))
        THEN IsDurationOf(ret, call.adj[1] = "-", NumeralOf(call.adj), UnitOf(call.adj))
        ELSE ret.tag # "Ok"

\* C2 as stated: the same for every non-negative integer n
C2_RoundTripAll ==
    ParseCalled /\ IsRoundTripInput(call.adj) =>
        IsDurationOf(ret, call.adj[1] = "-", NumeralOf(call.adj), UnitOf(call.adj))

\* the largest number of weeks, negated, came back as a negative duration
C2_Witness ==
    /\ ParseCalled
    /\ call.adj = <<"-">> \o DisplayMag(UnitMax("w")) \o <<"w">>
    /\ ret.tag = "Ok"
    /\ ret.val.neg

\* the length of the maximal leading run of decimal digits
LeadingDigits(s) ==
    Cardinality({i \in 1..Len(s) : \A j \in 1..i : IsDigitChar(s[j])})

\* adj is [+-]?<digits><unit> with unit one of s, m, h, d, w
HasShape(adj) ==
    LET rest == Unsigned(adj)
        k == LeadingDigits(rest)
    IN  /\ k >= 1
        /\ SubSeq(rest, k + 1, Len(rest)) \in {<<"s">>, <<"m">>, <<"h">>, <<"d">>, <<"w">>}

\* C7: parse_time_adjustment returns a duration only for an input of the
\* shape [+-]?<digits><unit>, the digits being the maximal leading run after
\* the sign and the unit everything after it; an input in which a digit
\* follows a non-digit is rejected.
C7_ShapeOnly == ParseCalled /\ ret.tag = "Ok" => HasShape(call.adj)

\* C9: parse_time_adjustment ends by returning a duration or an error for
\* every input and never aborts the process.
C9_NeverAborts == ParseCalled => ret.tag \in {"Ok", "Err"}

-----------------------------------------------------------------------------
(* Properties of the weekday substitution *)

SubstituteCalled == call.fn = "substitute_weekday" /\ ret.tag # "Pending"

\* the localized weekday name of a digit
Claimed_Weekday(c) ==
    CASE c = "0" -> "U+65E5"
      [] c = "1" -> "U+6708"
      [] c = "2" -> "U+706B"
      [] c = "3" -> "U+6C34"
      [] c = "4" -> "U+6728"
      [] c = "5" -> "U+91D1"
      [] c = "6" -> "U+571F"
      [] OTHER -> "?"

\* position i of s holds a digit enclosed in parentheses
Occurrence(s, i) ==
    /\ i > 1
    /\ i < Len(s)
    /\ s[i - 1] = "("
    /\ IsDigitChar(s[i])
    /\ s[i + 1] = ")"

\* position j of s holds a closing parenthesis right after an opening one,
\* which the substitution leaves out
EmptyClose(s, j) == j > 1 /\ s[j] = ")" /\ s[j - 1] = "("

\* where position j of s lands in the output
Landing(s, j) == j - Cardinality({k \in 1..(j - 1) : EmptyClose(s, k)})

\* C1 as amended: under jpwd every '(' digit ')' of the rendered string has
\* its digit replaced by the localized weekday name of that digit (0..6 the
\* seven names, any other digit '?') and keeps its enclosing parentheses, so
\* a rendered "(3)" becomes "(" name-of-3 ")".
C1_WeekdayInParens ==
    /\ call.fn = "get_japanese_weekday" /\ ret.tag # "Pending"
          => ret.val = <<Claimed_Weekday(call.weekday_num)>>
    /\ SubstituteCalled =>
          \A i \in 1..Len(call.formatted) :
              Occurrence(call.formatted, i) =>
                  LET p == Landing(call.formatted, i)
                  IN  /\ p + 1 <= Len(ret.val)
                      /\ ret.val[p - 1] = "("
                      /\ ret.val[p] = Claimed_Weekday(call.formatted[i])
                      /\ ret.val[p + 1] = ")"

\* C1 as stated: the weekday name takes the place of the digit and of both
\* parentheses
C1_ParensRemoved ==
    SubstituteCalled =>
        \A i \in 1..Len(call.formatted) :
            (/\ Occurrence(call.formatted, i)
             /\ \A j \in 1..Len(call.formatted) :
                    call.formatted[j] \in {"(", ")"} => j \in {i - 1, i + 1})
                => ret.val = SubSeq(call.formatted, 1, i - 2)
                               \o <<Claimed_Weekday(call.formatted[i])>>
                               \o SubSeq(call.formatted, i + 2, Len(call.formatted))

\* "x(3)y" came back as "x(" name-of-3 ")y"
C1_Witness ==
    /\ SubstituteCalled
    /\ call.formatted = <<"x", "(", "3", ")", "y">>
    /\ ret.val = <<"x", "(", "U+6C34", ")", "y">>

-----------------------------------------------------------------------------
(* Properties of a run of main *)

Exited == pc = "exited"

\* the command line is parsed: no token asks for help or is in error
Parsed == Args_parse(argv).tag = "Ok"

\* the timestamp of a parsed command line is absent or within the range of
\* DateTime
TimestampAccepted ==
    Parsed /\ (args.timestamp = None \/ InRange(args.timestamp[1]))

\* the timestamp is out of the range of DateTime or is no i64
TimestampRejected ==
    IF Parsed THEN args.timestamp # None /\ ~InRange(args.timestamp[1])
    ELSE Args_parse(argv).line.fmt = MSG_INVALID_VALUE

TimezoneAccepted == args.timezone \in {<<"U", "T", "C">>, <<"J", "S", "T">>}

\* an adjustment string that one of the four checks of parse_time_adjustment
\* rejects
Malformed(adj) ==
    \/ adj = <<>>
    \/ SelectSeq(Unsigned(adj), IsDigitChar) = <<>>
    \/ ~FitsI64(SelectSeq(Unsigned(adj), IsDigitChar))
    \/ SelectSeq(Unsigned(adj), IsOtherChar) \notin {<<"s">>, <<"m">>, <<"h">>, <<"d">>, <<"w">>}

AdjustMalformed == args.adjust # None /\ Malformed(args.adjust[1])

ErrorFormats == {"Invalid timestamp", "Invalid timezone", "Error in time adjustment: {}"}

\* the formatted line is the first line of standard output
Printed == stdout # <<>> /\ stdout[1] = [fmt |-> "{}", inner |-> "", arg |-> output]

\* C5: every run with an invalid timestamp, a timezone other than UTC and
\* JST or a malformed adjustment string ends with status 1 after printing
\* exactly one error message to standard output ("Invalid timezone" when the
\* timezone is the only fault), prints no formatted line and never acquires
\* the clipboard.
C5_InputErrorsExit1 ==
    Exited /\ (TimestampRejected \/ (Parsed /\ (~TimezoneAccepted \/ AdjustMalformed))) =>
        /\ exit_code = <<1>>
        /\ Len(stdout) = 1
        /\ stdout[1].fmt \in ErrorFormats
        /\ (TimestampAccepted /\ args.adjust = None) => stdout[1].fmt = "Invalid timezone"
        /\ clipboard.acquired = 0
        /\ clipboard.text = None

\* the adjustment string passes the four checks of parse_time_adjustment,
\* as also the strings "1s2" and "s5" do
AdjustPasses == args.adjust # None /\ ~Malformed(args.adjust[1])

\* C8 as amended: the host parses and applies the adjustment before it
\* validates the timezone. On a run with a parsed command line, an accepted
\* timestamp and a timezone outside {UTC, JST}: when the adjustment string
\* fails one of the four checks of parse_time_adjustment, the one message
\* printed is the adjustment error and not "Invalid timezone"; when the
\* string passes them and the run does not abort, the one message printed is
\* "Invalid timezone".
C8_AdjustmentFirst ==
    Exited /\ Parsed /\ TimestampAccepted /\ ~TimezoneAccepted =>
        /\ AdjustMalformed =>
              /\ Len(stdout) = 1
              /\ stdout[1].fmt = "Error in time adjustment: {}"
              /\ exit_code = <<1>>
        /\ (AdjustPasses /\ exit_code # <<101>>) =>
              /\ stdout = <<[fmt |-> "Invalid timezone", inner |-> "", arg |-> <<>>]>>
              /\ exit_code = <<1>>

\* C8 as stated: on such a run the message printed is "Invalid timezone" and
\* not the adjustment error
C8_TimezoneFirst ==
    Exited /\ Parsed /\ TimestampAccepted /\ ~TimezoneAccepted /\ AdjustMalformed =>
        /\ Len(stdout) = 1
        /\ stdout[1].fmt = "Invalid timezone"

\* timezone PST with the adjustment "10x" ended on the unknown-unit error
C8_Witness ==
    /\ Exited
    /\ Parsed
    /\ TimestampAccepted
    /\ args.timezone = <<"P", "S", "T">>
    /\ args.adjust = <<<<"1", "0", "x">>>>
    /\ stdout = <<[fmt |-> "Error in time adjustment: {}", inner |-> MSG_UNIT, arg |-> <<"x">>]>>

\* the run is past the three input validations
Validated == pc \in {"render", "print", "clipboard", "set_text", "return"}

HasLine(lines, fmt) == \E k \in 1..Len(lines) : lines[k].fmt = fmt

C6_State ==
    /\ clipboard.acquired <= 1
    /\ ~args.copy => clipboard.acquired = 0
    /\ (pc \in {"clipboard", "set_text", "return"} \/ clipboard.acquired > 0) => Printed
    /\ (HasLine(stderr, "Failed to access clipboard: {}")
            \/ HasLine(stderr, "Failed to copy to clipboard: {}")) => Printed
    /\ HasLine(stdout, "Copied to clipboard!") =>
            /\ clipboard.acquired = 1
            /\ clipboard.text = <<output>>
            /\ stdout = <<[fmt |-> "{}", inner |-> "", arg |-> output],
                          [fmt |-> "Copied to clipboard!", inner |-> "", arg |-> <<>>]>>
    /\ (Exited /\ Printed) => exit_code = <<0>>

C6_Step ==
    /\ Validated => (Validated' \/ (pc' = "exited" /\ exit_code' = <<0>>))
    /\ (pc \in {"clipboard", "set_text"} /\ clipboard' = clipboard) =>
            /\ stdout' = stdout
            /\ Len(stderr') = Len(stderr) + 1

\* C6: on every run that passes input validation the formatted line is printed
\* before any clipboard step and the run exits 0 whatever the clipboard does:
\* with copy enabled the clipboard is acquired at most once, a failure to
\* acquire it or to write to it only adds a warning to standard error, and
\* "Copied to clipboard!" is printed only after a successful write.
C6_ClipboardBestEffort == [](C6_State) /\ [][C6_Step]_vars

\* C10: unless the format option is exactly the keyword jpwd, the output, the
\* printed line and the copied text equal the rendered string character for
\* character, also when it contains a parenthesized digit.
C10_OnlyJpwd ==
    args.format # <<<<"j", "p", "w", "d">>>> =>
        /\ output = formatted
        /\ \A k \in 1..Len(stdout) : stdout[k].fmt = "{}" => stdout[k].arg = formatted
        /\ clipboard.text # None => clipboard.text = <<formatted>>

\* the custom pattern "(%w)" at the epoch in UTC: "(4)" was printed and copied
C10_Witness ==
    /\ Exited
    /\ args.format = <<<<"(", "%", "w", ")">>>>
    /\ formatted = <<"(", "4", ")">>
    /\ HasLine(stdout, "{}")
    /\ stdout[1].arg = <<"(", "4", ")">>
    /\ clipboard.text = <<<<"(", "4", ")">>>>

====
